---- MODULE Spec2Model ----
(***************************************************************************)
(* fileperson: the directory indexer (load / load_rec), the case-insensitive *)
(* Tag, the FileInfo record and the State store of src/src/lib.rs.           *)
(*                                                                           *)
(* Strings are sequences of one-character strings, paths are sequences of    *)
(* file names, Option<T> is a sequence of length 0 (None) or 1 (Some).       *)
(*                                                                           *)
(* Three specifications share the variables:                                 *)
(*   SpecLoad    State::new over every fixture: load and load_rec, one loop  *)
(*               iteration or return per step                                *)
(*   SpecStore   add, extend and tags on the State that State::new returned  *)
(*   SpecRecord  the methods of a FileInfo the caller holds                  *)
(***************************************************************************)
EXTENDS Integers, Sequences, FiniteSets, TLC

VARIABLES
    fs,         \* the directory fixture load() walks (the environment)
    include,    \* load's `include` argument, as given by the caller
    pc,         \* "start" | "walking" | "loaded" | "done": position in State::new
    lcInclude,  \* the lowercased set load passes to load_rec
    stack,      \* load_rec's call stack: frames [dir, items], root frame first
    flat,       \* the shared `flat` accumulator
    count,      \* the AtomicU32 progress counter
    ret,        \* load's return value
    state,      \* State::new's return value (root and flat of the State)
    infos,      \* State.infos
    tagsOut,    \* what the last State::tags() call yielded
    addedKeys,  \* history: (path, delete, folded tags) of every record added
    foldHit,    \* history: the last add/extend met a stored record that is
                \* equal to its argument but spelled differently
    fi,         \* a FileInfo the caller holds
    lastCall    \* history: the last FileInfo method call, its argument, the
                \* record before it and its return value

loadVars == <<fs, include, pc, lcInclude, stack, flat, count, ret, state>>
storeVars == <<infos, tagsOut, addedKeys, foldHit>>
recVars == <<fi, lastCall>>
vars == <<fs, include, pc, lcInclude, stack, flat, count, ret, state,
          infos, tagsOut, addedKeys, foldHit, fi, lastCall>>

(***************************************************************************)
(* Bounds of the model.                                                    *)
(***************************************************************************)
\* entries (files, directories, others) present below the root of a fixture
MaxEntries == 4
\* entries of a fixture whose visit fails
MaxFailures == 1
\* records the store may hold
MaxInfos == 2
\* length of the iterator handed to Extend::extend
MaxExtend == 2

(***************************************************************************)
(* Text: characters, lowercasing, case folding, comparison.                *)
(***************************************************************************)
\* the lower case of the upper-case letters (char::to_lowercase, and the
\* simple case folding of caseless, on ASCII)
LowerCaseOf ==
    ("A" :> "a") @@ ("B" :> "b") @@ ("C" :> "c") @@ ("D" :> "d") @@ ("E" :> "e") @@ ("F" :> "f") @@
    ("G" :> "g") @@ ("H" :> "h") @@ ("I" :> "i") @@ ("J" :> "j") @@ ("K" :> "k") @@ ("L" :> "l") @@
    ("M" :> "m") @@ ("N" :> "n") @@ ("O" :> "o") @@ ("P" :> "p") @@ ("Q" :> "q") @@ ("R" :> "r") @@
    ("S" :> "s") @@ ("T" :> "t") @@ ("U" :> "u") @@ ("V" :> "v") @@ ("W" :> "w") @@ ("X" :> "x") @@
    ("Y" :> "y") @@ ("Z" :> "z")

\* the Unicode scalar value of the characters used
CodePointOf ==
    ("a" :> 97) @@ ("b" :> 98) @@ ("c" :> 99) @@ ("d" :> 100) @@ ("e" :> 101) @@ ("f" :> 102) @@
    ("g" :> 103) @@ ("h" :> 104) @@ ("i" :> 105) @@ ("j" :> 106) @@ ("k" :> 107) @@ ("l" :> 108) @@
    ("m" :> 109) @@ ("n" :> 110) @@ ("o" :> 111) @@ ("p" :> 112) @@ ("q" :> 113) @@ ("r" :> 114) @@
    ("s" :> 115) @@ ("t" :> 116) @@ ("u" :> 117) @@ ("v" :> 118) @@ ("w" :> 119) @@ ("x" :> 120) @@
    ("y" :> 121) @@ ("z" :> 122) @@ ("A" :> 65) @@ ("B" :> 66) @@ ("C" :> 67) @@ ("D" :> 68) @@
    ("E" :> 69) @@ ("F" :> 70) @@ ("G" :> 71) @@ ("H" :> 72) @@ ("I" :> 73) @@ ("J" :> 74) @@
    ("K" :> 75) @@ ("L" :> 76) @@ ("M" :> 77) @@ ("N" :> 78) @@ ("O" :> 79) @@ ("P" :> 80) @@
    ("Q" :> 81) @@ ("R" :> 82) @@ ("S" :> 83) @@ ("T" :> 84) @@ ("U" :> 85) @@ ("V" :> 86) @@
    ("W" :> 87) @@ ("X" :> 88) @@ ("Y" :> 89) @@ ("Z" :> 90) @@ ("0" :> 48) @@ ("1" :> 49) @@
    ("2" :> 50) @@ ("3" :> 51) @@ ("4" :> 52) @@ ("5" :> 53) @@ ("6" :> 54) @@ ("7" :> 55) @@
    ("8" :> 56) @@ ("9" :> 57) @@ ("." :> 46) @@ ("#" :> 35)

\* char::to_digit(10)
DigitOf ==
    ("0" :> 0) @@ ("1" :> 1) @@ ("2" :> 2) @@ ("3" :> 3) @@ ("4" :> 4) @@ ("5" :> 5) @@
    ("6" :> 6) @@ ("7" :> 7) @@ ("8" :> 8) @@ ("9" :> 9)

IsIn(seq, c) == \E i \in 1..Len(seq) : seq[i] = c

CodePoint(c) == CodePointOf[c]

\* char::to_lowercase
char_to_lowercase(c) == IF c \in DOMAIN LowerCaseOf THEN LowerCaseOf[c] ELSE c

\* str::to_lowercase
to_lowercase(s) == [i \in 1..Len(s) |-> char_to_lowercase(s[i])]

\* caseless::default_case_fold_str (on ASCII: upper case maps to lower case)
default_case_fold_str(s) == [i \in 1..Len(s) |-> char_to_lowercase(s[i])]

\* Ord for String: lexicographic by scalar value; -1 Less, 0 Equal, 1 Greater
RECURSIVE StrCmp(_, _)
StrCmp(a, b) ==
    IF a = <<>> /\ b = <<>> THEN 0
    ELSE IF a = <<>> THEN -1
    ELSE IF b = <<>> THEN 1
    ELSE IF CodePoint(Head(a)) < CodePoint(Head(b)) THEN -1
    ELSE IF CodePoint(Head(a)) > CodePoint(Head(b)) THEN 1
    ELSE StrCmp(Tail(a), Tail(b))

\* caseless::default_caseless_match_str
default_caseless_match_str(a, b) ==
    default_case_fold_str(a) = default_case_fold_str(b)

(***************************************************************************)
(* natord::compare_ignore_case, the sibling order of load_rec.  The names   *)
(* compared hold no whitespace, which natord would skip.                   *)
(***************************************************************************)
IsDigit(c) == c \in DOMAIN DigitOf
DigitVal(c) == DigitOf[c]
IntCmp(x, y) == IF x < y THEN -1 ELSE IF x > y THEN 1 ELSE 0

\* the leading run of digits of s
RECURSIVE DigitRun(_)
DigitRun(s) ==
    IF s = <<>> \/ ~IsDigit(Head(s)) THEN <<>>
    ELSE <<Head(s)>> \o DigitRun(Tail(s))

\* two digit runs: left-aligned when either starts with 0 (`015` < `12`),
\* else right-aligned (`15` < `123`): the longer run is the greater number
RunCmp(l, r) ==
    IF DigitVal(Head(l)) = 0 \/ DigitVal(Head(r)) = 0
    THEN StrCmp(l, r)
    ELSE IF Len(l) # Len(r) THEN IntCmp(Len(l), Len(r))
    ELSE StrCmp(l, r)

RECURSIVE NatCmp(_, _)
NatCmp(l, r) ==
    IF l = <<>> /\ r = <<>> THEN 0
    ELSE IF l = <<>> THEN -1
    ELSE IF r = <<>> THEN 1
    ELSE IF IsDigit(Head(l)) /\ IsDigit(Head(r))
    THEN LET dl == DigitRun(l)
             dr == DigitRun(r)
             c == RunCmp(dl, dr)
         IN IF c # 0 THEN c
            ELSE NatCmp(SubSeq(l, Len(dl) + 1, Len(l)),
                        SubSeq(r, Len(dr) + 1, Len(r)))
    ELSE LET c == IntCmp(CodePoint(Head(l)), CodePoint(Head(r)))
         IN IF c # 0 THEN c ELSE NatCmp(Tail(l), Tail(r))

compare_ignore_case(a, b) == NatCmp(to_lowercase(a), to_lowercase(b))

(***************************************************************************)
(* Directory fixtures.  An entry is [path, kind, err]:                     *)
(*   kind  "file" | "dir" | "other" (neither is_dir() nor is_file())       *)
(*   err   "none"                                                          *)
(*         "walk"     WalkDir yields Err for the entry                     *)
(*         "nonutf8"  Utf8PathBuf::from_path_buf fails on its path         *)
(*         "denied"   a directory that is listed by its parent but cannot  *)
(*                    be listed itself                                     *)
(* strip_prefix cannot fail: WalkDir yields only paths below the path it   *)
(* was given.  No fixture holds two siblings that differ in case only.     *)
(***************************************************************************)
RootPath == <<>>

Name_a_txt == <<"a", ".", "t", "x", "t">>
Name_B_MP3 == <<"B", ".", "M", "P", "3">>
Name_sock == <<"s", "o", "c", "k">>
Name_sub == <<"s", "u", "b">>
Name_b2_wav == <<"b", "2", ".", "w", "a", "v">>
Name_b10_mp3 == <<"b", "1", "0", ".", "m", "p", "3">>
Name_deep == <<"d", "e", "e", "p">>
Name_x_txt == <<"x", ".", "t", "x", "t">>
Name_d_mp3 == <<"d", ".", "m", "p", "3">>

\* the entries a fixture may hold
Universe ==
    { [path |-> <<Name_a_txt>>, kind |-> "file"],
      [path |-> <<Name_B_MP3>>, kind |-> "file"],
      [path |-> <<Name_sock>>, kind |-> "other"],
      [path |-> <<Name_sub>>, kind |-> "dir"],
      [path |-> <<Name_sub, Name_b2_wav>>, kind |-> "file"],
      [path |-> <<Name_sub, Name_b10_mp3>>, kind |-> "file"],
      [path |-> <<Name_sub, Name_deep>>, kind |-> "dir"],
      [path |-> <<Name_x_txt>>, kind |-> "dir"],
      [path |-> <<Name_x_txt, Name_d_mp3>>, kind |-> "file"] }

ParentPath(p) == SubSeq(p, 1, Len(p) - 1)
file_name(p) == p[Len(p)]
IsPrefix(p, q) == Len(p) <= Len(q) /\ SubSeq(q, 1, Len(p)) = p

\* every entry's parent is the root or a directory of the shape
Closed(S) ==
    \A e \in S : Len(e.path) = 1
                 \/ \E d \in S : d.kind = "dir" /\ d.path = ParentPath(e.path)

Shapes == { S \in SUBSET Universe : Cardinality(S) <= MaxEntries /\ Closed(S) }

ErrKinds(e) ==
    IF e.kind = "dir" THEN {"walk", "nonutf8", "denied"} ELSE {"walk", "nonutf8"}

\* the fixtures of shape S with the entries of F failing, one way each
WithFailures(S, F) ==
    { [root |-> "ok",
       entries |-> { [path |-> e.path, kind |-> e.kind,
                      err |-> IF e \in F THEN k[e] ELSE "none"] : e \in S }] :
      k \in { g \in [F -> {"walk", "nonutf8", "denied"}] :
              \A e \in F : g[e] \in ErrKinds(e) } }

\* a root that cannot be opened or listed ("denied") holds nothing to see
Fixtures ==
    { [root |-> "denied", entries |-> {}] }
    \cup UNION { WithFailures(S, F) :
                 S \in Shapes,
                 F \in { G \in SUBSET Universe : Cardinality(G) <= MaxFailures } }

IncludePool ==
    { {},
      { <<"M", "P", "3">> },
      { <<"m", "p", "3">>, <<"W", "a", "v">> } }

(***************************************************************************)
(* Directory and FsNode.                                                   *)
(***************************************************************************)
Directory(this, entries) == [this |-> this, entries |-> entries]
FileNode(path) == [type |-> "File", path |-> path]
DirectoryNode(dir) == [type |-> "Directory", dir |-> dir]

\* the File leaves below a list of entries, in depth-first pre-order
RECURSIVE FileLeaves(_)
FileLeaves(entries) ==
    IF entries = <<>> THEN <<>>
    ELSE LET h == Head(entries)
         IN (IF h.type = "File" THEN <<h>> ELSE FileLeaves(h.dir.entries))
            \o FileLeaves(Tail(entries))

\* insertion of x into a list sorted by cmp, after the elements equal to it
RECURSIVE InsertByName(_, _)
InsertByName(x, s) ==
    IF s = <<>> THEN <<x>>
    ELSE IF compare_ignore_case(file_name(x.path), file_name(Head(s).path)) = -1
    THEN <<x>> \o s
    ELSE <<Head(s)>> \o InsertByName(x, Tail(s))

RECURSIVE SortByName(_)
SortByName(S) ==
    IF S = {} THEN <<>>
    ELSE LET x == CHOOSE y \in S : TRUE
         IN InsertByName(x, SortByName(S \ {x}))

Children(f, p) ==
    { e \in f.entries : Len(e.path) = Len(p) + 1 /\ IsPrefix(p, e.path) }

\* WalkDir::new(p).min_depth(1).max_depth(1).sort_by(compare_ignore_case):
\* the children of p in order, or one Err when p cannot be listed
WalkDir(f, p, denied) ==
    IF denied THEN << [path |-> p, kind |-> "dir", err |-> "walk"] >>
    ELSE SortByName(Children(f, p))

\* name.split(".").last(): what follows the last '.', the whole name if none
extension(name) ==
    IF ~IsIn(name, ".") THEN name
    ELSE LET k == CHOOSE i \in 1..Len(name) :
                      name[i] = "." /\ \A j \in (i + 1)..Len(name) : name[j] # "."
         IN SubSeq(name, k + 1, Len(name))

\* include.contains(&extension.to_lowercase())
include_contains(lc, name) == to_lowercase(extension(name)) \in lc

(***************************************************************************)
(* load and load_rec, one loop iteration or return per action.             *)
(***************************************************************************)
Top == stack[Len(stack)]
HeadItem == Head(Top.items)
Visiting == pc = "walking" /\ Top.items # <<>>
\* AtomicU32::fetch_add(1): the counter after the call (a fixture of at most
\* MaxEntries entries never takes it near the u32 wrap)
fetch_add(c) == c + 1

\* load: node_root, flat = node_root.clone(), count = 0, the lowercased
\* include set, and the call load_rec(&mut node_root, ...)
LoadCall ==
    /\ pc = "start"
    /\ pc' = "walking"
    /\ lcInclude' = { to_lowercase(s) : s \in include }
    /\ flat' = Directory(RootPath, <<>>)
    /\ count' = 0
    /\ stack' = << [dir |-> Directory(RootPath, <<>>),
                    items |-> WalkDir(fs, RootPath, fs.root = "denied")] >>
    /\ UNCHANGED <<fs, include, ret, state>>

\* the walk yields Err: error!("{e:?}"), next entry
EntryWalkError ==
    /\ Visiting
    /\ HeadItem.err = "walk"
    /\ count' = fetch_add(count)
    /\ stack' = [stack EXCEPT ![Len(stack)].items = Tail(@)]
    /\ UNCHANGED <<fs, include, pc, lcInclude, flat, ret, state>>

\* a bug: the error ends the walk of the directory
EntryNonUtf8_abort ==
    /\ Visiting
    /\ HeadItem.err = "nonutf8"
    /\ count' = fetch_add(count)
    /\ stack' = [stack EXCEPT ![Len(stack)].items = <<>>]
    /\ UNCHANGED <<fs, include, pc, lcInclude, flat, ret, state>>

\* Utf8PathBuf::from_path_buf fails: error!("{e:?}"), next entry
EntryNonUtf8 ==
    /\ Visiting
    /\ HeadItem.err = "nonutf8"
    /\ count' = fetch_add(count)
    /\ stack' = [stack EXCEPT ![Len(stack)].items = Tail(@)]
    /\ UNCHANGED <<fs, include, pc, lcInclude, flat, ret, state>>

\* path.is_dir(): a new Directory and the recursive call load_rec(&mut dir, ...)
EntryDir ==
    /\ Visiting
    /\ HeadItem.err \in {"none", "denied"}
    /\ HeadItem.kind = "dir"
    /\ count' = fetch_add(count)
    /\ stack' = Append(stack,
                       [dir |-> Directory(HeadItem.path, <<>>),
                        items |-> WalkDir(fs, HeadItem.path, HeadItem.err = "denied")])
    /\ UNCHANGED <<fs, include, pc, lcInclude, flat, ret, state>>

\* a bug: flat takes the file before the files already there
PushFile_front(rejected, node) ==
    /\ flat' = [flat EXCEPT !.entries = <<node>> \o @]
    /\ stack' = [stack EXCEPT ![Len(stack)].dir.entries = Append(@, node),
                              ![Len(stack)].items = Tail(@)]

\* the body of the `if !include.contains(..)` of load_rec is empty: the node
\* is pushed whatever the test says
PushFile(rejected, node) ==
    /\ flat' = [flat EXCEPT !.entries = Append(@, node)]
    /\ stack' = [stack EXCEPT ![Len(stack)].dir.entries = Append(@, node),
                              ![Len(stack)].items = Tail(@)]

\* path.is_file(): the include test, then the node goes to flat and to parent
EntryFile ==
    /\ Visiting
    /\ HeadItem.err = "none"
    /\ HeadItem.kind = "file"
    /\ count' = fetch_add(count)
    /\ PushFile(~include_contains(lcInclude, file_name(HeadItem.path)),
                FileNode(HeadItem.path))
    /\ UNCHANGED <<fs, include, pc, lcInclude, ret, state>>

\* neither a directory nor a file: debug!("skipping"), next entry
EntryOther ==
    /\ Visiting
    /\ HeadItem.err = "none"
    /\ HeadItem.kind = "other"
    /\ count' = fetch_add(count)
    /\ stack' = [stack EXCEPT ![Len(stack)].items = Tail(@)]
    /\ UNCHANGED <<fs, include, pc, lcInclude, flat, ret, state>>

\* a bug: a directory that holds nothing is left out
PushDirectory_nonempty(entries, dir) ==
    IF dir.entries = <<>> THEN entries ELSE Append(entries, DirectoryNode(dir))

\* the entries of the caller's directory once the recursive call for `dir`
\* is back: parent.entries.push(FsNode::Directory(dir))
PushDirectory(entries, dir) == Append(entries, DirectoryNode(dir))

\* a recursive load_rec returns: the caller pushes the directory
RecReturn ==
    /\ pc = "walking"
    /\ Top.items = <<>>
    /\ Len(stack) > 1
    /\ stack' = [SubSeq(stack, 1, Len(stack) - 1) EXCEPT
                    ![Len(stack) - 1].dir.entries = PushDirectory(@, Top.dir),
                    ![Len(stack) - 1].items = Tail(@)]
    /\ UNCHANGED <<fs, include, pc, lcInclude, flat, count, ret, state>>

\* the outermost load_rec returns and load returns Ok((node_root, flat))
LoadReturn ==
    /\ pc = "walking"
    /\ Top.items = <<>>
    /\ Len(stack) = 1
    /\ pc' = "loaded"
    /\ ret' = [tag |-> "Ok", root |-> Top.dir, flat |-> flat]
    /\ UNCHANGED <<fs, include, lcInclude, stack, flat, count, state>>

\* State::new: `load(root, include)?`, then Ok(Self { root, flat, infos })
NewReturn ==
    /\ pc = "loaded"
    /\ pc' = "done"
    /\ state' = IF ret.tag = "Ok"
                THEN [tag |-> "Ok", root |-> ret.root, flat |-> ret.flat]
                ELSE [tag |-> "Err"]
    /\ UNCHANGED <<fs, include, lcInclude, stack, flat, count, ret>>

NoRecord == [path |-> RootPath, delete |-> <<>>, tags |-> <<>>]

InitLoad ==
    /\ fs \in Fixtures
    /\ include \in IncludePool
    /\ pc = "start"
    /\ lcInclude = {}
    /\ stack = <<>>
    /\ flat = Directory(RootPath, <<>>)
    /\ count = 0
    /\ ret = [tag |-> "None"]
    /\ state = [tag |-> "None"]
    /\ infos = {}
    /\ tagsOut = [called |-> FALSE, seq |-> <<>>]
    /\ addedKeys = {}
    /\ foldHit = FALSE
    /\ fi = NoRecord
    /\ lastCall = [op |-> "none", arg |-> <<>>, before |-> NoRecord, ret |-> FALSE]

NextLoad ==
    \/ LoadCall /\ UNCHANGED <<storeVars, recVars>>
    \/ EntryWalkError /\ UNCHANGED <<storeVars, recVars>>
    \/ EntryNonUtf8 /\ UNCHANGED <<storeVars, recVars>>
    \/ EntryDir /\ UNCHANGED <<storeVars, recVars>>
    \/ EntryFile /\ UNCHANGED <<storeVars, recVars>>
    \/ EntryOther /\ UNCHANGED <<storeVars, recVars>>
    \/ RecReturn /\ UNCHANGED <<storeVars, recVars>>
    \/ LoadReturn /\ UNCHANGED <<storeVars, recVars>>
    \/ NewReturn /\ UNCHANGED <<storeVars, recVars>>

SpecLoad == InitLoad /\ [][NextLoad]_vars


(***************************************************************************)
(* Tag and FileInfo.                                                       *)
(***************************************************************************)
None == <<>>
Some(x) == <<x>>
unwrap_or(o, d) == IF o = None THEN d ELSE o[1]

Tag(color, value) == [color |-> color, value |-> value]

\* impl PartialEq for Tag
Tag_eq(a, b) == default_caseless_match_str(a.value, b.value)

\* impl Ord for Tag
Tag_cmp(a, b) ==
    StrCmp(default_case_fold_str(a.value), default_case_fold_str(b.value))

\* Vec<Tag> == Vec<Tag>
Tags_eq(s, t) ==
    Len(s) = Len(t) /\ \A i \in 1..Len(s) : Tag_eq(s[i], t[i])

\* #[derive(PartialEq, Eq, Hash)] for FileInfo: every field, tags by Tag's ==
FileInfo_eq(f, g) ==
    f.path = g.path /\ f.delete = g.delete /\ Tags_eq(f.tags, g.tags)

\* impl From<P> for FileInfo
FileInfo_from(p) == [path |-> p, delete |-> None, tags |-> <<>>]

touched(f) == f.delete # None \/ f.tags # <<>>

\* a variant: the argument replaces the record's tags
set_tags_stores(f, tags) == [f EXCEPT !.tags = tags]

\* the record after set_tags(tags): the argument is not used
set_tags(f, tags) ==
    IF f.delete = None THEN [f EXCEPT !.delete = Some(TRUE)] ELSE f

\* a bug: an unset deletion flag counts as set
questionable_state_unwrap_true(f) == unwrap_or(f.delete, TRUE) /\ f.tags # <<>>

questionable_state(f) == unwrap_or(f.delete, FALSE) /\ f.tags # <<>>

TagRed == Tag(None, <<"R", "e", "d">>)
TagRedLower == Tag(Some(<<"#", "f", "0", "0">>), <<"r", "e", "d">>)
TagBlue == Tag(None, <<"B", "L", "U", "E">>)

DeletePool == { None, Some(TRUE), Some(FALSE) }

FileInfo(p, d, t) == [path |-> p, delete |-> d, tags |-> t]
PathA == <<Name_a_txt>>
PathB == <<Name_sub, Name_b10_mp3>>

\* the records handed to State::add and Extend::extend
StoreRecords ==
    { FileInfo(PathA, None, <<>>),
      FileInfo(PathA, None, <<TagRed>>),
      FileInfo(PathA, None, <<TagRedLower>>),
      FileInfo(PathA, Some(TRUE), <<TagRed>>),
      FileInfo(PathA, None, <<TagBlue, TagRedLower>>),
      FileInfo(PathA, None, <<TagBlue, TagRed>>),
      FileInfo(PathA, Some(FALSE), <<>>),
      FileInfo(PathB, None, <<TagRed>>),
      FileInfo(PathB, Some(TRUE), <<TagBlue>>),
      FileInfo(PathB, None, <<TagRedLower, TagBlue>>) }

\* the tag lists a caller's record and set_tags are given
TagLists ==
    { <<>>, <<TagRed>>, <<TagRedLower>>, <<TagBlue>>, <<TagBlue, TagRedLower>>,
      <<TagRed, TagBlue>>, <<TagRed, TagRedLower>> }

PathPool == { PathA, PathB }

\* the records a caller may hold
Records ==
    { FileInfo(p, d, t) :
      p \in PathPool, d \in DeletePool, t \in TagLists }

(***************************************************************************)
(* State: the store of FileInfo records.                                   *)
(***************************************************************************)
\* a bug: the stored record equal to f is replaced by f
insert_replace(set, f) == { g \in set : ~FileInfo_eq(f, g) } \cup {f}

\* HashSet::insert: a record equal to a stored one is dropped
insert(set, f) ==
    IF \E g \in set : FileInfo_eq(f, g) THEN set ELSE set \cup {f}

\* HashSet::extend: insert, item by item
RECURSIVE insert_all(_, _)
insert_all(set, iter) ==
    IF iter = <<>> THEN set
    ELSE insert_all(insert(set, Head(iter)), Tail(iter))

FoldedTags(f) == [i \in 1..Len(f.tags) |-> default_case_fold_str(f.tags[i].value)]
Key(f) == <<f.path, f.delete, FoldedTags(f)>>

\* inserting iter into set meets a stored record equal to an item of iter
\* and spelled differently
RECURSIVE MeetsOtherSpelling(_, _)
MeetsOtherSpelling(set, iter) ==
    IF iter = <<>> THEN FALSE
    ELSE \/ \E g \in set : FileInfo_eq(Head(iter), g) /\ g # Head(iter)
         \/ MeetsOtherSpelling(insert(set, Head(iter)), Tail(iter))

\* infos.iter().flat_map(|f| f.tags()) for one iteration order of the set
RECURSIVE flat_map_tags(_)
flat_map_tags(order) ==
    IF order = <<>> THEN <<>>
    ELSE Head(order).tags \o flat_map_tags(Tail(order))

\* Itertools::sorted: a stable sort by Tag's Ord
RECURSIVE InsertTag(_, _)
InsertTag(x, s) ==
    IF s = <<>> THEN <<x>>
    ELSE IF Tag_cmp(x, Head(s)) = -1 THEN <<x>> \o s
    ELSE <<Head(s)>> \o InsertTag(x, Tail(s))

RECURSIVE sorted_from(_, _)
sorted_from(acc, s) ==
    IF s = <<>> THEN acc ELSE sorted_from(InsertTag(Head(s), acc), Tail(s))

sorted(s) == sorted_from(<<>>, s)

\* a bug: no deduplication
dedup_none(s) == s

\* Itertools::dedup: of each run of equal neighbours the first is kept
RECURSIVE dedup(_)
dedup(s) ==
    IF Len(s) <= 1 THEN s
    ELSE IF Tag_eq(s[1], s[2]) THEN dedup(<<s[1]>> \o SubSeq(s, 3, Len(s)))
    ELSE <<s[1]>> \o dedup(Tail(s))

\* the orders a HashSet may iterate in
Orders(S) ==
    { o \in [1..Cardinality(S) -> S] :
      \A i, j \in 1..Cardinality(S) : o[i] = o[j] => i = j }

\* State::tags()
tags(order) == dedup(sorted(flat_map_tags(order)))

NotCalled == [called |-> FALSE, seq |-> <<>>]

\* State::add(f): infos.insert(f); Ok(()).  The iterator of an earlier
\* tags() borrows the State and is gone by now.
Add(f) ==
    /\ infos' = insert(infos, f)
    /\ Cardinality(infos') <= MaxInfos
    /\ addedKeys' = addedKeys \cup {Key(f)}
    /\ foldHit' = MeetsOtherSpelling(infos, <<f>>)
    /\ tagsOut' = NotCalled

\* Extend::extend(iter): infos.extend(iter)
Extend(iter) ==
    /\ infos' = insert_all(infos, iter)
    /\ Cardinality(infos') <= MaxInfos
    /\ addedKeys' = addedKeys \cup { Key(iter[i]) : i \in 1..Len(iter) }
    /\ foldHit' = MeetsOtherSpelling(infos, iter)
    /\ tagsOut' = NotCalled

\* State::tags(), read to its end
CallTags ==
    /\ \E order \in Orders(infos) :
           tagsOut' = [called |-> TRUE, seq |-> tags(order)]
    /\ UNCHANGED <<infos, addedKeys, foldHit>>

Iterators == UNION { [1..n -> StoreRecords] : n \in 0..MaxExtend }

\* the State that State::new returns for an empty, readable root
InitStore ==
    /\ fs = [root |-> "ok", entries |-> {}]
    /\ include = {}
    /\ pc = "done"
    /\ lcInclude = {}
    /\ stack = << [dir |-> Directory(RootPath, <<>>), items |-> <<>>] >>
    /\ flat = Directory(RootPath, <<>>)
    /\ count = 0
    /\ ret = [tag |-> "Ok", root |-> Directory(RootPath, <<>>),
              flat |-> Directory(RootPath, <<>>)]
    /\ state = [tag |-> "Ok", root |-> Directory(RootPath, <<>>),
                flat |-> Directory(RootPath, <<>>)]
    /\ infos = {}
    /\ tagsOut = NotCalled
    /\ addedKeys = {}
    /\ foldHit = FALSE
    /\ fi = NoRecord
    /\ lastCall = [op |-> "none", arg |-> <<>>, before |-> NoRecord, ret |-> FALSE]

NextStore ==
    \/ (\E f \in StoreRecords : Add(f)) /\ UNCHANGED <<loadVars, recVars>>
    \/ (\E iter \in Iterators : Extend(iter)) /\ UNCHANGED <<loadVars, recVars>>
    \/ CallTags /\ UNCHANGED <<loadVars, recVars>>

SpecStore == InitStore /\ [][NextStore]_vars

(***************************************************************************)
(* A FileInfo in the caller's hands.                                       *)
(***************************************************************************)
Call(op, arg, before, r) == [op |-> op, arg |-> arg, before |-> before, ret |-> r]

\* FileInfo::from(path)
From(p) ==
    /\ fi' = FileInfo_from(p)
    /\ lastCall' = Call("from", <<>>, fi, FALSE)

\* a record read back by serde (#[derive(Deserialize)]): any field values
Deserialize(r) ==
    /\ fi' = r
    /\ lastCall' = Call("deserialize", <<>>, fi, FALSE)

\* fi.set_tags(t)
SetTags(t) ==
    /\ fi' = set_tags(fi, t)
    /\ lastCall' = Call("set_tags", t, fi, FALSE)

\* fi.questionable_state()
CallQuestionableState ==
    /\ lastCall' = Call("questionable_state", <<>>, fi, questionable_state(fi))
    /\ UNCHANGED fi

\* fi.touched()
CallTouched ==
    /\ lastCall' = Call("touched", <<>>, fi, touched(fi))
    /\ UNCHANGED fi

InitRecord ==
    /\ fs = [root |-> "ok", entries |-> {}]
    /\ include = {}
    /\ pc = "done"
    /\ lcInclude = {}
    /\ stack = << [dir |-> Directory(RootPath, <<>>), items |-> <<>>] >>
    /\ flat = Directory(RootPath, <<>>)
    /\ count = 0
    /\ ret = [tag |-> "Ok", root |-> Directory(RootPath, <<>>),
              flat |-> Directory(RootPath, <<>>)]
    /\ state = [tag |-> "Ok", root |-> Directory(RootPath, <<>>),
                flat |-> Directory(RootPath, <<>>)]
    /\ infos = {}
    /\ tagsOut = NotCalled
    /\ addedKeys = {}
    /\ foldHit = FALSE
    /\ \E p \in PathPool : fi = FileInfo_from(p)
    /\ lastCall = Call("from", <<>>, NoRecord, FALSE)

NextRecord ==
    \/ (\E p \in PathPool : From(p)) /\ UNCHANGED <<loadVars, storeVars>>
    \/ (\E r \in Records : Deserialize(r)) /\ UNCHANGED <<loadVars, storeVars>>
    \/ (\E t \in TagLists : SetTags(t)) /\ UNCHANGED <<loadVars, storeVars>>
    \/ CallQuestionableState /\ UNCHANGED <<loadVars, storeVars>>
    \/ CallTouched /\ UNCHANGED <<loadVars, storeVars>>

SpecRecord == InitRecord /\ [][NextRecord]_vars

(***************************************************************************)
(* load_rec as a function: what one call appends to its parent's entries   *)
(* and to flat, given the items its WalkDir yields.                        *)
(***************************************************************************)
RECURSIVE load_rec(_, _)
load_rec(f, items) ==
    IF items = <<>> THEN [entries |-> <<>>, flat |-> <<>>]
    ELSE LET h == Head(items)
             rest == load_rec(f, Tail(items))
             sub == load_rec(f, WalkDir(f, h.path, h.err = "denied"))
         IN IF h.err \in {"walk", "nonutf8"} THEN rest
            ELSE IF h.kind = "dir"
            THEN [entries |-> <<DirectoryNode(Directory(h.path, sub.entries))>>
                              \o rest.entries,
                  flat |-> sub.flat \o rest.flat]
            ELSE IF h.kind = "file"
            THEN [entries |-> <<FileNode(h.path)>> \o rest.entries,
                  flat |-> <<FileNode(h.path)>> \o rest.flat]
            ELSE rest

(***************************************************************************)
(* Properties.                                                             *)
(***************************************************************************)
Returned == pc \in {"loaded", "done"} /\ ret.tag = "Ok"

\* every File node below a list of entries
AllFiles(entries) == { FileLeaves(entries)[i] : i \in 1..Len(FileLeaves(entries)) }

Range(s) == { s[i] : i \in 1..Len(s) }

\* the allow-list admits the name: its extension, lowercased, is a member of
\* the lowercased list
Admitted(name) ==
    to_lowercase(extension(name)) \in { to_lowercase(x) : x \in include }

\* C1: after load, a file whose extension is not in the allow-list appears
\* neither in the root tree nor in the flat list.
C1_OnlyAdmittedFiles ==
    Returned =>
        \A n \in AllFiles(ret.root.entries) \cup Range(ret.flat.entries) :
            n.type = "File" => Admitted(file_name(n.path))

\* C2: the store holds at most one record per path.
C2_OneRecordPerPath ==
    \A f, g \in infos : f.path = g.path => f = g

\* C3: when the root cannot be opened or listed, load and State::new return
\* an error, not Ok with an empty (root, flat) pair.
C3_RootFailureIsError ==
    (pc = "done" /\ fs.root = "denied") => (ret.tag = "Err" /\ state.tag = "Err")

\* the entry is visited: neither it nor a directory above it fails
Survives(f, e) ==
    /\ e.err \in {"none", "denied"}
    /\ \A a \in f.entries :
           (IsPrefix(a.path, e.path) /\ a.path # e.path) => a.err = "none"

\* the fixture without the entries that are not visited
Prune(f) ==
    [root |-> f.root,
     entries |-> { [e EXCEPT !.err = "none"] :
                   e \in { x \in f.entries : Survives(f, x) } }]

\* C4: with a readable root, a failing entry is only left out: load returns
\* Ok and the (root, flat) pair is the one of the fixture without the
\* entries that failed.
C4_FailureOnlyOmitsEntry ==
    (pc \in {"loaded", "done"} /\ fs.root = "ok") =>
        LET want == load_rec(Prune(fs), WalkDir(Prune(fs), RootPath, FALSE))
        IN /\ ret.tag = "Ok"
           /\ ret.root = Directory(RootPath, want.entries)
           /\ ret.flat = Directory(RootPath, want.flat)

\* a file of `sub` fails, its later sibling and the later sibling of `sub`
\* are in the result
C4_Witness ==
    /\ pc = "done"
    /\ [path |-> <<Name_sub, Name_b2_wav>>, kind |-> "file", err |-> "nonutf8"]
           \in fs.entries
    /\ ret.flat.entries = << FileNode(<<Name_sub, Name_b10_mp3>>) >>
    /\ Len(ret.root.entries) = 2
    /\ ret.root.entries[2] = DirectoryNode(Directory(<<Name_x_txt>>, <<>>))

\* the File leaves of the directories under construction, outermost first
RECURSIVE StackLeaves(_)
StackLeaves(k) ==
    IF k = 0 THEN <<>>
    ELSE StackLeaves(k - 1) \o FileLeaves(stack[k].dir.entries)

\* C5: at every point of the walk flat is the sequence of File leaves of the
\* tree built so far, in depth-first pre-order; it holds File nodes only and
\* none twice; the returned flat is the leaf sequence of the returned root.
C5_FlatIsPreorderLeaves ==
    /\ flat.entries = StackLeaves(Len(stack))
    /\ \A i \in 1..Len(flat.entries) : flat.entries[i].type = "File"
    /\ \A i, j \in 1..Len(flat.entries) :
           flat.entries[i] = flat.entries[j] => i = j
    /\ Returned => ret.flat.entries = FileLeaves(ret.root.entries)

\* a file of the root, then the two files of `sub` in natural order
C5_Witness ==
    /\ pc = "done"
    /\ ret.flat.entries = << FileNode(<<Name_a_txt>>),
                             FileNode(<<Name_sub, Name_b2_wav>>),
                             FileNode(<<Name_sub, Name_b10_mp3>>) >>

FoldedValues(s) == [i \in 1..Len(s) |-> default_case_fold_str(s[i].value)]
StoredTags == UNION { Range(f.tags) : f \in infos }

C6_Yielded ==
    tagsOut.called =>
        LET s == tagsOut.seq
            v == FoldedValues(tagsOut.seq)
        IN /\ \A i \in 1..(Len(s) - 1) : StrCmp(v[i], v[i + 1]) = -1
           /\ Range(v) = { default_case_fold_str(t.value) : t \in StoredTags }
           /\ Range(s) \subseteq StoredTags
           /\ infos = {} => s = <<>>

C6_Repeated ==
    (tagsOut.called /\ tagsOut'.called /\ infos' = infos)
        => FoldedValues(tagsOut'.seq) = FoldedValues(tagsOut.seq)

\* C6: tags() yields the tags of the stored records, strictly increasing in
\* the case-folded order of their values (so no two are equal under case
\* folding), nothing on an empty store, and the same case-folded sequence
\* when called again on an unchanged store.
C6_TagsSortedDedupUnion == [](C6_Yielded) /\ [][C6_Repeated]_vars

\* "Red", "red" and "BLUE" are stored and two tags are yielded
C6_Witness ==
    /\ tagsOut.called
    /\ {TagRed, TagRedLower, TagBlue} \subseteq StoredTags
    /\ FoldedValues(tagsOut.seq) = << <<"b", "l", "u", "e">>, <<"r", "e", "d">> >>

\* the directory with this path, at the place of the tree its path gives
RECURSIVE HasDirectoryAt(_, _)
HasDirectoryAt(dir, p) ==
    \/ dir.this = p
    \/ \E i \in 1..Len(dir.entries) :
           /\ dir.entries[i].type = "Directory"
           /\ dir.entries[i].dir.this = SubSeq(p, 1, Len(dir.this) + 1)
           /\ Len(p) > Len(dir.this)
           /\ HasDirectoryAt(dir.entries[i].dir, p)

\* C7 as stated: every directory below the root is a Directory node of the
\* returned tree, at the place of its path.
C7_EveryDirectoryPresent ==
    Returned =>
        \A e \in fs.entries :
            (e.kind = "dir" /\ fs.root = "ok") => HasDirectoryAt(ret.root, e.path)

\* C7, amended: every directory the walk visits without a failure on it or
\* on a directory above it is a Directory node of the returned tree, at the
\* place of its path, whatever it holds and whatever its name.
C7_VisitedDirectoriesPresent ==
    Returned =>
        \A e \in fs.entries :
            (e.kind = "dir" /\ fs.root = "ok" /\ Survives(fs, e))
                => HasDirectoryAt(ret.root, e.path)

\* the allow-list is {"MP3"}: the empty directory `x.txt` and `sub`, which
\* holds a wav file only, are both in the tree
C7_Witness ==
    /\ pc = "done"
    /\ include = { <<"M", "P", "3">> }
    /\ \E i \in 1..Len(ret.root.entries) :
           ret.root.entries[i] = DirectoryNode(Directory(<<Name_x_txt>>, <<>>))
    /\ \E i \in 1..Len(ret.root.entries) :
           ret.root.entries[i] =
               DirectoryNode(Directory(<<Name_sub>>,
                                       << FileNode(<<Name_sub, Name_b2_wav>>) >>))

\* C8: questionable_state() is true iff delete is Some(true) and tags is
\* not empty.
C8_QuestionableState ==
    lastCall.op = "questionable_state" =>
        /\ lastCall.ret <=> (lastCall.before.delete = Some(TRUE)
                             /\ lastCall.before.tags # <<>>)
        /\ fi = lastCall.before

C8_Witness ==
    /\ lastCall.op = "questionable_state"
    /\ lastCall.ret
    /\ fi.delete = Some(TRUE)
    /\ fi.tags = <<TagRed>>

\* C9: set_tags(tags) leaves the record's tags and path as they were; the
\* deletion flag becomes Some(true) when it was unset and is kept otherwise.
C9_SetTagsOnlyMarksDelete ==
    lastCall.op = "set_tags" =>
        /\ fi.tags = lastCall.before.tags
        /\ fi.path = lastCall.before.path
        /\ fi.delete = IF lastCall.before.delete = None
                       THEN Some(TRUE) ELSE lastCall.before.delete

\* set_tags(["BLUE"]) on a record tagged "Red" whose flag was unset
C9_Witness ==
    /\ lastCall.op = "set_tags"
    /\ lastCall.arg = <<TagBlue>>
    /\ lastCall.before.delete = None
    /\ fi.tags = <<TagRed>>
    /\ fi.delete = Some(TRUE)

C10_Count ==
    /\ { Key(f) : f \in infos } = addedKeys
    /\ Cardinality(infos) = Cardinality(addedKeys)

C10_Step ==
    /\ infos \subseteq infos'
    /\ addedKeys' = addedKeys => infos' = infos

\* C10: the store only grows: no call removes or alters a stored record, a
\* call that adds only records equal to stored ones leaves the store as it
\* is, and the store holds as many records as distinct (path, delete,
\* case-folded tags) tuples were added.
C10_StoreOnlyGrows == [](C10_Count) /\ [][C10_Step]_vars

\* the last call offered a record equal to a stored one in another spelling
C10_Witness ==
    /\ foldHit
    /\ Cardinality(infos) = 1
    /\ FileInfo(PathA, None, <<TagRed>>) \in infos

====
